---- MODULE Spec2Model ----
(***************************************************************************)
(* Ubisoft login managers of R6-API.                                       *)
(*                                                                         *)
(*   src/src/http/ubi-auth.ts   in-memory singleton, getToken(appId)       *)
(*   src/unnamed/part_000       Login() without cache, saves both files    *)
(*   src/unnamed/part_001       Login() with the on-disk cache; the file   *)
(*                              holds two copies of the module: lines      *)
(*                              1-112 (RequestLogin fabricates a 30 minute *)
(*                              expiration) and lines 114-220 (it does not)*)
(*                                                                         *)
(* Time is Date.now() in milliseconds.  A behaviour runs one of the four   *)
(* managers (impl), with two callers whose async calls interleave at every *)
(* await.                                                                  *)
(***************************************************************************)
EXTENDS Integers, Sequences, FiniteSets, TLC

\* ---------------------------------------------------------------- bounds
\* Remote login requests issued in one behaviour.
MaxLogins == 2
\* Clock advances in one behaviour.
MaxTicks == 1

\* ------------------------------------------------------------- constants
\* Date.now() counts milliseconds.
OneSecond == 1 * 1000
\* 30 * 60 * 1000
ThirtyMinutes == 30 * 60 * 1000
\* 5 * 60 * 1000
FiveMinutes == 5 * 60 * 1000
\* Date.now() when the first call is made.
StartTime == 2 * ThirtyMinutes
\* The amounts by which the clock advances between steps.
ClockSteps == {ThirtyMinutes, ThirtyMinutes + OneSecond}
\* Lifetimes of the session the remote service may state in data.expiration.
ServerLifetimes == {2 * ThirtyMinutes}

Callers == {"c1", "c2"}
\* UbiAppId.v2, UbiAppId.v3; 'v2' | 'v3'
AppIds == {"v2", "v3"}
Impls == {"ubi-auth", "part_000", "part_001a", "part_001b"}

\* ---------------------------------------------------------------- values
\* JavaScript undefined, per type of value (0 stands for an undefined number:
\* the code only ever tests lastLoginTime with !).
NoTicket == [app |-> "none", n |-> 0, at |-> 0]
NoSession == [sid |-> 0]
NoString == [str |-> "undefined", ms |-> 0]
Null == [ticket |-> NoTicket, sessionId |-> NoSession, expiration |-> NoString, null |-> TRUE]

\* new Date(ms).toISOString(): an ISO-8601 string with millisecond precision.
toISOString(ms) == [str |-> "iso", ms |-> ms]
\* new Date(s).getTime() of a string; NaN is -1 here, and IsNaN says so.
IsNaN(s) == s.str # "iso"
getTime(s) == IF IsNaN(s) THEN -1 ELSE s.ms

\* The object a login returns: {...response.data, sessionId[, expiration]}.
Obj(ticket, sessionId, expiration) ==
    [ticket |-> ticket, sessionId |-> sessionId, expiration |-> expiration, null |-> FALSE]

\* ------------------------------------------------------------------ JSON
\* JSON.stringify: the members whose value is not undefined, in the object's
\* key order, as text (a sequence of <<key, value>>).
DropSessionStringify(o) ==
    (IF o.ticket # NoTicket THEN << <<"ticket", o.ticket>> >> ELSE << >>)
    \o (IF o.expiration # NoString THEN << <<"expiration", o.expiration>> >> ELSE << >>)

JSONstringify(o) ==
    (IF o.ticket # NoTicket THEN << <<"ticket", o.ticket>> >> ELSE << >>)
    \o (IF o.expiration # NoString THEN << <<"expiration", o.expiration>> >> ELSE << >>)
    \o (IF o.sessionId # NoSession THEN << <<"sessionId", o.sessionId>> >> ELSE << >>)

\* A file: missing, or its text.  Garbage is text JSON.parse rejects, and so
\* is the empty text of a file opened for writing.
Missing == [exists |-> FALSE, json |-> FALSE, text |-> << >>]
Garbage == [exists |-> TRUE, json |-> FALSE, text |-> << >>]
Text(t) == [exists |-> TRUE, json |-> TRUE, text |-> t]

\* A text laid over a longer one: the new text followed by the tail of the
\* old, which JSON.parse rejects.
Corrupt == [exists |-> TRUE, json |-> FALSE, text |-> << <<"tail", NoString>> >>]

Member(text, key, undef) ==
    IF \E i \in 1..Len(text) : text[i][1] = key
    THEN text[CHOOSE i \in 1..Len(text) : text[i][1] = key][2]
    ELSE undef

\* JSON.parse of a JSON text.
JSONparse(text) ==
    Obj(Member(text, "ticket", NoTicket), Member(text, "sessionId", NoSession),
        Member(text, "expiration", NoString))

\* ------------------------------------------------------- the remote service
\* What axios(httpConfig) may bring back at time t for the n-th response, asked
\* with Ubi-AppId a: a status (0: no response at all, a network error), the
\* ubi-sessionid header (NoSession: absent), and in a 2xx body the ticket and,
\* perhaps, an expiration.
Statuses == {200, 401, 409, 429, 500}
Ticket(a, n, t) == [app |-> a, n |-> n, at |-> t]
Session(n) == [sid |-> n]
Responses(a, n, t) ==
    {[status |-> 200, header |-> h, ticket |-> Ticket(a, n, t), expiration |-> e] :
        h \in {NoSession, Session(n)},
        e \in {NoString} \cup {toISOString(t + l) : l \in ServerLifetimes}}
    \cup {[status |-> s, header |-> h, ticket |-> NoTicket, expiration |-> NoString] :
        s \in Statuses \ {200}, h \in {NoSession, Session(n)}}
    \cup {[status |-> 0, header |-> NoSession, ticket |-> NoTicket, expiration |-> NoString]}

\* --------------------------------------------------------- thrown values
NoError == [kind |-> "none", message |-> "", status |-> 0]
\* new Error(message)
Error(message) == [kind |-> "Error", message |-> message, status |-> 0]
\* throw 'message'
ThrownString(message) == [kind |-> "string", message |-> message, status |-> 0]
\* The AxiosError axios rejected with; status 0: it has no response.
AxiosError(status) == [kind |-> "AxiosError", message |-> "", status |-> status]

Return(o) == [ok |-> TRUE, value |-> o, thrown |-> NoError]
Throw(e) == [ok |-> FALSE, value |-> Null, thrown |-> e]

MissingHeader == Error("Missing Ubi-SessionId header in login response.")

\* ------------------------------------------------ src/src/http/ubi-auth.ts
\* Variants of shouldReauthenticate with another window.
StaleAfterAnHour(tk, sid, last, t) ==
    tk = NoTicket \/ sid = NoSession \/ last = 0 \/ t - last > 2 * ThirtyMinutes

StaleAtThirty(tk, sid, last, t) ==
    tk = NoTicket \/ sid = NoSession \/ last = 0 \/ t - last >= ThirtyMinutes

\* shouldReauthenticate answering false whatever is cached.
NeverReauthenticate(tk, sid, last, t) == FALSE

\* shouldReauthenticate (lines 21-29), Date.now() being t.
shouldReauthenticate(tk, sid, last, t) ==
    tk = NoTicket \/ sid = NoSession \/ last = 0 \/ t - last > ThirtyMinutes

\* requestLoginCatch without its case 429.
requestLoginCatchNo429(status) ==
    CASE status = 401 -> Error("Unauthorized: Incorrect email or password.")
      [] status = 409 -> Error("Conflict: Captcha or other challenge required.")
      [] OTHER -> [kind |-> "Error", message |-> "Login failed with status", status |-> status]

\* The switch of requestLogin's catch, on axiosError.response.status.
requestLoginCatch(status) ==
    CASE status = 401 -> Error("Unauthorized: Incorrect email or password.")
      [] status = 409 -> Error("Conflict: Captcha or other challenge required.")
      [] status = 429 -> Error("Too many requests: Rate limit exceeded.")
      [] OTHER -> [kind |-> "Error", message |-> "Login failed with status", status |-> status]

\* requestLogin without its test of the ubi-sessionid header.
requestLoginNoHeaderCheck(resp) ==
    IF resp.status = 200
    THEN Return(Obj(resp.ticket, resp.header, resp.expiration))
    ELSE IF resp.status # 0
         THEN Throw(requestLoginCatch(resp.status))
         ELSE Throw(AxiosError(0))

\* requestLogin from the moment axios settles with resp.
requestLogin(resp) ==
    IF resp.status = 200
    THEN IF resp.header = NoSession
         THEN Throw(MissingHeader)
         ELSE Return(Obj(resp.ticket, resp.header, resp.expiration))
    ELSE IF resp.status # 0
         THEN Throw(requestLoginCatch(resp.status))
         ELSE Throw(AxiosError(0))

\* getTokenResume stamping lastLoginTime before it looks at the result.
getTokenResumeStamped(r, tk, sid, last, t) ==
    IF ~r.ok
    THEN [token |-> tk, sessionId |-> sid, lastLoginTime |-> t, thrown |-> r.thrown]
    ELSE [token |-> r.value.ticket, sessionId |-> r.value.sessionId, lastLoginTime |-> t,
          thrown |-> NoError]

\* getToken after `await this.requestLogin(appId)` settled with r: the fields
\* of the manager, and what the call does.
getTokenResume(r, tk, sid, last, t) ==
    IF ~r.ok
    THEN [token |-> tk, sessionId |-> sid, lastLoginTime |-> last, thrown |-> r.thrown]
    ELSE IF r.value = Null
    THEN [token |-> tk, sessionId |-> sid, lastLoginTime |-> last,
          thrown |-> Error("Login failed. Cannot retrieve token.")]
    ELSE [token |-> r.value.ticket, sessionId |-> r.value.sessionId, lastLoginTime |-> t,
          thrown |-> NoError]

\* ---------------------------------------------------- src/unnamed/part_001
\* What fs.readFile rejects with for a missing file, and JSON.parse throws on
\* text that is not JSON.
ENOENT == [kind |-> "SystemError", message |-> "ENOENT", status |-> 0]
SyntaxError == [kind |-> "SyntaxError", message |-> "JSON.parse", status |-> 0]

\* The try block of loadToken (lines 14-19, 128-133) once fs.readFile settled
\* with file f, at time t; falling out of the if leads to the return null.
loadTokenTry(f, t) ==
    IF ~f.exists
    THEN Throw(ENOENT)
    ELSE IF ~f.json
         THEN Throw(SyntaxError)
         ELSE LET token == JSONparse(f.text)
              IN  IF /\ token.expiration # NoString
                     /\ ~IsNaN(token.expiration)
                     /\ getTime(token.expiration) > t + FiveMinutes
                  THEN Return(token)
                  ELSE Return(Null)

\* loadToken without its catch.
loadTokenNoCatch(f, t) == loadTokenTry(f, t)

\* loadToken: the empty catch swallows whatever the try threw, and null is
\* returned.
loadToken(f, t) ==
    LET r == loadTokenTry(f, t)
    IN  IF r.ok THEN r ELSE Return(Null)

\* saveToken losing the sessionId member.
saveTokenDropsSession(token) == Text(DropSessionStringify(token))

\* saveToken's text: JSON.stringify(token, null, 2).
saveToken(token) == Text(JSONstringify(token))

\* The switch of RequestLogin's catch (first copy, lines 97-110).
RequestLoginCatch1(status) ==
    CASE status = 401 -> ThrownString("Account does not exist.")
      [] status = 409 -> ThrownString("Captcha needed.")
      [] status = 429 -> ThrownString("Too many requests. Rate limit hit.")
      [] OTHER -> AxiosError(status)

\* RequestLogin1 without the 30 minute default expiration.
RequestLogin1NoDefault(resp, t) ==
    IF resp.status = 200
    THEN IF resp.header = NoSession
         THEN Throw(MissingHeader)
         ELSE Return(Obj(resp.ticket, resp.header, resp.expiration))
    ELSE IF resp.status # 0
         THEN Throw(RequestLoginCatch1(resp.status))
         ELSE Throw(AxiosError(0))

\* RequestLogin of the first copy (lines 83-110), axios settled with resp at t.
RequestLogin1(resp, t) ==
    IF resp.status = 200
    THEN IF resp.header = NoSession
         THEN Throw(MissingHeader)
         ELSE Return(Obj(resp.ticket, resp.header,
                         IF resp.expiration # NoString
                         THEN resp.expiration
                         ELSE toISOString(t + ThirtyMinutes)))
    ELSE IF resp.status # 0
         THEN Throw(RequestLoginCatch1(resp.status))
         ELSE Throw(AxiosError(0))

\* The switch of RequestLogin's catch (second copy, lines 204-218).
RequestLoginCatch2(status) ==
    CASE status = 401 -> ThrownString("Account does not exist.")
      [] status = 409 -> ThrownString("Captcha needed.")
      [] status = 429 -> ThrownString("X Too many requests. Rate limit hit.")
      [] OTHER -> AxiosError(status)

\* RequestLogin2 testing the header of every response, whatever its status.
RequestLogin2HeaderFirst(resp, t) ==
    IF resp.header = NoSession
    THEN Throw(MissingHeader)
    ELSE IF resp.status = 200
         THEN Return(Obj(resp.ticket, resp.header, resp.expiration))
         ELSE IF resp.status # 0
              THEN Throw(RequestLoginCatch2(resp.status))
              ELSE Throw(AxiosError(0))

\* RequestLogin of the second copy (lines 194-218): no expiration of its own.
RequestLogin2(resp, t) ==
    IF resp.status = 200
    THEN IF resp.header = NoSession
         THEN Throw(MissingHeader)
         ELSE Return(Obj(resp.ticket, resp.header, resp.expiration))
    ELSE IF resp.status # 0
         THEN Throw(RequestLoginCatch2(resp.status))
         ELSE Throw(AxiosError(0))

\* ---------------------------------------------------- src/unnamed/part_000
\* The switch of RequestLogin's catch (lines 74-93).
RequestLoginCatch0(status) ==
    CASE status = 401 -> ThrownString("Account does not exist.")
      [] status = 409 -> ThrownString("Captcha needed.")
      [] status = 429 -> ThrownString("Too many requests.")
      [] OTHER -> AxiosError(status)

\* RequestLogin (lines 57-93).
RequestLogin0(resp, t) ==
    IF resp.status = 200
    THEN IF resp.header = NoSession
         THEN Throw(MissingHeader)
         ELSE Return(Obj(resp.ticket, resp.header, resp.expiration))
    ELSE IF resp.status # 0
         THEN Throw(RequestLoginCatch0(resp.status))
         ELSE Throw(AxiosError(0))

\* SaveJSONToFile(path, object) of utilities/file-stream: writes the object
\* as JSON.
SaveJSONToFile(o) == Text(JSONstringify(o))

\* ================================================================== state
VARIABLES
    impl,           \* which manager this program runs
    now,            \* Date.now()
    ticks,          \* clock advances so far
    token,          \* UbiLoginManager.token          (ubi-auth.ts)
    sessionId,      \* UbiLoginManager.sessionId      (ubi-auth.ts)
    lastLoginTime,  \* UbiLoginManager.lastLoginTime  (ubi-auth.ts), 0: undefined
    file,           \* private/auth_token_{v2,v3}.json
    pc,             \* where each caller's async call is suspended
    arg,            \* getToken's appId; the version Login is working on
    tok,            \* Login's tokenV2 / tokenV3 of the version it is working on
    nLogins,        \* login requests sent so far
    served,         \* login responses delivered so far
    lastSaved,      \* history: what the last completed save of each file was given
    lastRet,        \* history: what getToken last returned
    obs,            \* history: what each caller's running call has done so far
    done            \* history: the call that ended last, and how

vars == <<impl, now, ticks, token, sessionId, lastLoginTime, file, pc, arg, tok,
          nLogins, served, lastSaved, lastRet, obs, done>>

NoFail == [app |-> "none", status |-> 0, header |-> FALSE, thrown |-> NoError, save |-> FALSE]
NoRet == [token |-> NoTicket, sessionId |-> NoSession]

\* What a call has done: the login requests it sent per appId, the versions
\* whose cached credential it reused, the files it opened for writing, and,
\* while Login refreshes a version, the expiration its loadToken found on disk
\* and whether that was one second before the time of the load.
NoCall ==
    [op |-> "none", reqs |-> [v \in AppIds |-> 0], hits |-> {}, wrote |-> {},
     found |-> NoString, justExpired |-> FALSE]
Begun(op) == [NoCall EXCEPT !.op = op]

\* The end of caller p's call, which did o: how it ended ("returned" a
\* credential, "rejected" with fail.thrown, or "resolved" with nothing,
\* fail.thrown logged), when, and the token Login held last.
Ended(p, o, how, ret, fail, tk) ==
    [caller |-> p, op |-> o.op, appId |-> arg[p], how |-> how, at |-> now, ret |-> ret,
     fail |-> fail, tok |-> tk, reqs |-> o.reqs, hits |-> o.hits, wrote |-> o.wrote]

NoEnd ==
    [caller |-> "none", op |-> "none", appId |-> "none", how |-> "none", at |-> 0,
     ret |-> NoRet, fail |-> NoFail, tok |-> Null, reqs |-> NoCall.reqs, hits |-> {},
     wrote |-> {}]

Failure(p, resp, thrown) ==
    [app |-> arg[p], status |-> resp.status, header |-> resp.header # NoSession,
     thrown |-> thrown, save |-> FALSE]

\* Credentials found on disk when the program starts, left by an earlier run.
OldObj(v, e) == Obj(Ticket(v, 0, 0), Session(100), e)
OldFile(v, e) == Text(JSONstringify(OldObj(v, e)))
InitFiles ==
    {[v2 |-> f, v3 |-> Missing] :
        f \in {Missing, Garbage,
               OldFile("v2", toISOString(StartTime - OneSecond)),
               OldFile("v2", toISOString(StartTime + FiveMinutes)),
               OldFile("v2", toISOString(StartTime + FiveMinutes + OneSecond))}}
    \cup {[v2 |-> f, v3 |-> OldFile("v3", toISOString(StartTime + FiveMinutes + OneSecond))] :
        f \in {Missing, OldFile("v2", toISOString(StartTime + FiveMinutes + OneSecond))}}

Init ==
    /\ impl \in Impls
    /\ now = StartTime
    /\ ticks = 0
    /\ token = NoTicket
    /\ sessionId = NoSession
    /\ lastLoginTime = 0
    /\ file \in InitFiles
    /\ impl \notin {"part_001a", "part_001b"} => \A v \in AppIds : file[v] = Missing
    /\ pc = [p \in Callers |-> "idle"]
    /\ arg = [p \in Callers |-> "none"]
    /\ tok = [p \in Callers |-> Null]
    /\ nLogins = 0
    /\ served = 0
    /\ lastSaved = [v \in AppIds |-> Null]
    /\ lastRet = NoRet
    /\ obs = [p \in Callers |-> NoCall]
    /\ done = NoEnd

\* The end of a call is looked at once, before anything else happens: done is
\* history, and clearing it changes nothing the program reads.
Quiet == done = NoEnd

\* The callers are interchangeable: a call made while nobody is calling is c1's.
MayCall(p) == pc[p] = "idle" /\ (p = "c2" => pc["c1"] # "idle")

Observed ==
    /\ done # NoEnd
    /\ done' = NoEnd
    /\ lastRet' = IF done.how = "returned" THEN done.ret ELSE lastRet
    /\ UNCHANGED <<impl, now, ticks, token, sessionId, lastLoginTime, file, pc, arg, tok,
                   nLogins, served, lastSaved, obs>>

\* ------------------------------------------------------------- the clock
Tick(d) ==
    /\ Quiet
    /\ ticks < MaxTicks
    /\ now' = now + d
    /\ ticks' = ticks + 1
    /\ UNCHANGED <<impl, token, sessionId, lastLoginTime, file, pc, arg, tok,
                   nLogins, served, lastSaved, lastRet, obs, done>>

\* ------------------------------------------------ ubi-auth.ts: getToken
\* getToken(appId) up to its first await, or to its return when the cached
\* credential is reused.
GetToken(p, appId) ==
    /\ Quiet
    /\ impl = "ubi-auth"
    /\ MayCall(p)
    /\ arg' = [arg EXCEPT ![p] = appId]
    /\ IF shouldReauthenticate(token, sessionId, lastLoginTime, now)
       THEN /\ nLogins < MaxLogins
            /\ nLogins' = nLogins + 1
            /\ pc' = [pc EXCEPT ![p] = "awaitLogin"]
            /\ obs' = [obs EXCEPT ![p] = [Begun("getToken") EXCEPT !.reqs[appId] = 1]]
            /\ UNCHANGED done
       ELSE /\ done' = [Ended(p, [Begun("getToken") EXCEPT !.hits = {appId}], "returned",
                              [token |-> token, sessionId |-> sessionId], NoFail, Null)
                          EXCEPT !.appId = appId]
            /\ UNCHANGED <<pc, nLogins, obs>>
    /\ UNCHANGED <<impl, now, ticks, token, sessionId, lastLoginTime, file, tok,
                   served, lastSaved, lastRet>>

\* getToken resumed when requestLogin settles.
GetTokenLoginSettled(p) ==
    /\ Quiet
    /\ impl = "ubi-auth"
    /\ pc[p] = "awaitLogin"
    /\ \E resp \in Responses(arg[p], served + 1, now) :
         LET r == requestLogin(resp)
             m == getTokenResume(r, token, sessionId, lastLoginTime, now)
             ret == [token |-> m.token, sessionId |-> m.sessionId]
         IN  /\ token' = m.token
             /\ sessionId' = m.sessionId
             /\ lastLoginTime' = m.lastLoginTime
             /\ done' = IF m.thrown = NoError
                        THEN Ended(p, obs[p], "returned", ret, NoFail, Null)
                        ELSE Ended(p, obs[p], "rejected", NoRet,
                                   Failure(p, resp, m.thrown), Null)
    /\ served' = served + 1
    /\ pc' = [pc EXCEPT ![p] = "idle"]
    /\ obs' = [obs EXCEPT ![p] = NoCall]
    /\ UNCHANGED <<impl, now, ticks, file, arg, tok, nLogins, lastSaved, lastRet>>

\* ------------------------------------------- part_000 / part_001: Login
OnDisk == {"part_001a", "part_001b"}

\* this.RequestLogin(appId) of the running manager, axios settled with resp.
RequestLogin(resp, t) ==
    CASE impl = "part_000" -> RequestLogin0(resp, t)
      [] impl = "part_001a" -> RequestLogin1(resp, t)
      [] OTHER -> RequestLogin2(resp, t)

\* The text the running manager writes for a token.
Written(o) == IF impl = "part_000" THEN SaveJSONToFile(o) ELSE saveToken(o)

\* The rejection of fs.writeFile (no private/ directory, no permission).
WriteError == [kind |-> "SystemError", message |-> "writeFile", status |-> 0]

\* Login without its try / catch: what is thrown rejects the promise.
LoginNoCatch(thrown) == "rejected"

\* The catch of Login (part_001 l.53-55, l.165-167, part_000 l.27-29): what
\* was thrown inside the try is logged, and the promise resolves.
LoginCatch(thrown) == "resolved"

\* Login() up to its first await: loadToken('v2') where there is a cache,
\* RequestLogin(UbiAppId.v2) in part_000.
Login(p) ==
    /\ Quiet
    /\ impl # "ubi-auth"
    /\ MayCall(p)
    /\ arg' = [arg EXCEPT ![p] = "v2"]
    /\ IF impl \in OnDisk
       THEN /\ pc' = [pc EXCEPT ![p] = "load"]
            /\ obs' = [obs EXCEPT ![p] = Begun("Login")]
            /\ UNCHANGED nLogins
       ELSE /\ nLogins < MaxLogins
            /\ nLogins' = nLogins + 1
            /\ pc' = [pc EXCEPT ![p] = "request"]
            /\ obs' = [obs EXCEPT ![p] = [Begun("Login") EXCEPT !.reqs["v2"] = 1]]
    /\ UNCHANGED <<impl, now, ticks, token, sessionId, lastLoginTime, file, tok,
                   served, lastSaved, lastRet, done>>

\* Login resumed when loadToken(version) settles (part_001, lines 42-44, 48-50).
LoadSettled(p) ==
    /\ Quiet
    /\ impl \in OnDisk
    /\ pc[p] = "load"
    /\ LET v == arg[p]
           r == loadToken(file[v], now)
           t == r.value
           o == [obs[p] EXCEPT !.hits = @ \cup {v}]
           e == IF file[v].json THEN JSONparse(file[v].text).expiration ELSE NoString
       IN  IF ~r.ok
           THEN \* what loadToken throws lands in Login's catch
                /\ pc' = [pc EXCEPT ![p] = "idle"]
                /\ done' = Ended(p, obs[p], LoginCatch(r.thrown), NoRet,
                                 [NoFail EXCEPT !.app = v, !.thrown = r.thrown], Null)
                /\ obs' = [obs EXCEPT ![p] = NoCall]
                /\ tok' = [tok EXCEPT ![p] = Null]
                /\ UNCHANGED <<arg, nLogins>>
           ELSE IF t = Null
           THEN /\ nLogins < MaxLogins
                /\ nLogins' = nLogins + 1
                /\ pc' = [pc EXCEPT ![p] = "request"]
                /\ obs' = [obs EXCEPT ![p].reqs[v] = @ + 1, ![p].found = e,
                                      ![p].justExpired = (e = toISOString(now - OneSecond))]
                /\ tok' = [tok EXCEPT ![p] = t]
                /\ UNCHANGED <<arg, done>>
           ELSE /\ UNCHANGED nLogins
                /\ IF v = "v2"
                   THEN /\ arg' = [arg EXCEPT ![p] = "v3"]
                        /\ pc' = [pc EXCEPT ![p] = "load"]
                        /\ obs' = [obs EXCEPT ![p] = o]
                        /\ tok' = [tok EXCEPT ![p] = t]
                        /\ UNCHANGED done
                   ELSE /\ pc' = [pc EXCEPT ![p] = "idle"]
                        /\ done' = Ended(p, o, "resolved", NoRet, NoFail, t)
                        /\ obs' = [obs EXCEPT ![p] = NoCall]
                        /\ tok' = [tok EXCEPT ![p] = Null]
                        /\ UNCHANGED arg
    /\ UNCHANGED <<impl, now, ticks, token, sessionId, lastLoginTime, file,
                   served, lastSaved, lastRet>>

\* Login resumed when RequestLogin settles: the token is saved, or the catch
\* of Login logs what was thrown and Login ends.
LoginSettled(p) ==
    /\ Quiet
    /\ impl # "ubi-auth"
    /\ pc[p] = "request"
    /\ served' = served + 1
    /\ \E resp \in Responses(arg[p], served + 1, now) :
         LET r == RequestLogin(resp, now)
         IN  IF r.ok
             THEN /\ tok' = [tok EXCEPT ![p] = r.value]
                  /\ pc' = [pc EXCEPT ![p] = "open"]
                  /\ UNCHANGED <<obs, done>>
             ELSE /\ pc' = [pc EXCEPT ![p] = "idle"]
                  /\ done' = Ended(p, obs[p], LoginCatch(r.thrown), NoRet,
                                   Failure(p, resp, r.thrown), Null)
                  /\ obs' = [obs EXCEPT ![p] = NoCall]
                  /\ tok' = [tok EXCEPT ![p] = Null]
    /\ UNCHANGED <<impl, now, ticks, token, sessionId, lastLoginTime, file, arg,
                   nLogins, lastSaved, lastRet>>

\* fs.writeFile opens the file for writing, which empties it.
SaveOpened(p) ==
    /\ Quiet
    /\ pc[p] = "open"
    /\ file' = [file EXCEPT ![arg[p]] = Garbage]
    /\ pc' = [pc EXCEPT ![p] = "write"]
    /\ obs' = [obs EXCEPT ![p].wrote = @ \cup {arg[p]}]
    /\ UNCHANGED <<impl, now, ticks, token, sessionId, lastLoginTime, arg, tok,
                   nLogins, served, lastSaved, lastRet, done>>

\* fs.writeFile rejects: Login's catch logs it and Login ends.
SaveRefused(p) ==
    /\ Quiet
    /\ pc[p] = "open"
    /\ pc' = [pc EXCEPT ![p] = "idle"]
    /\ done' = Ended(p, obs[p], LoginCatch(WriteError), NoRet,
                     [NoFail EXCEPT !.app = arg[p], !.thrown = WriteError, !.save = TRUE],
                     tok[p])
    /\ obs' = [obs EXCEPT ![p] = NoCall]
    /\ tok' = [tok EXCEPT ![p] = Null]
    /\ UNCHANGED <<impl, now, ticks, token, sessionId, lastLoginTime, file, arg,
                   nLogins, served, lastSaved, lastRet>>

\* What the file holds once text f was written from offset 0 into a file
\* holding old.  fs.writeFile opens the file, which empties it, and writes in a
\* later step; writes of two saves of one file that overlap leave the later
\* text alone when it is at least as long as what it is laid over, and the
\* later text followed by the tail of the earlier one when it is shorter.
writeFile(old, f) == IF old = Garbage THEN {f} ELSE {f, Corrupt}

\* fs.writeFile writes the text and resolves; Login goes on to v3, or ends.
SaveWritten(p) ==
    /\ Quiet
    /\ pc[p] = "write"
    /\ LET v == arg[p]
       IN  /\ \E f \in writeFile(file[v], Written(tok[p])) :
                file' = [file EXCEPT ![v] = f]
           /\ lastSaved' = [lastSaved EXCEPT ![v] = tok[p]]
           /\ IF v = "v3"
              THEN /\ pc' = [pc EXCEPT ![p] = "idle"]
                   /\ done' = Ended(p, obs[p], "resolved", NoRet, NoFail, tok[p])
                   /\ obs' = [obs EXCEPT ![p] = NoCall]
                   /\ tok' = [tok EXCEPT ![p] = Null]
                   /\ UNCHANGED <<arg, nLogins>>
              ELSE /\ arg' = [arg EXCEPT ![p] = "v3"]
                   /\ UNCHANGED <<tok, done>>
                   /\ IF impl \in OnDisk
                      THEN /\ pc' = [pc EXCEPT ![p] = "load"]
                           /\ obs' = [obs EXCEPT ![p].found = NoString,
                                                 ![p].justExpired = FALSE]
                           /\ UNCHANGED nLogins
                      ELSE /\ nLogins < MaxLogins
                           /\ nLogins' = nLogins + 1
                           /\ pc' = [pc EXCEPT ![p] = "request"]
                           /\ obs' = [obs EXCEPT ![p].reqs["v3"] = @ + 1]
    /\ UNCHANGED <<impl, now, ticks, token, sessionId, lastLoginTime,
                   served, lastRet>>

\* ---------------------------------------------------------- specification
Next ==
    \/ Observed
    \/ \E d \in ClockSteps : Tick(d)
    \/ \E p \in Callers, a \in AppIds : GetToken(p, a)
    \/ \E p \in Callers : GetTokenLoginSettled(p)
    \/ \E p \in Callers : Login(p)
    \/ \E p \in Callers : LoadSettled(p)
    \/ \E p \in Callers : LoginSettled(p)
    \/ \E p \in Callers : SaveOpened(p)
    \/ \E p \in Callers : SaveRefused(p)
    \/ \E p \in Callers : SaveWritten(p)



Spec == Init /\ [][Next]_vars

\* ================================================================= claims
\* A step in which caller p's getToken is called / its login settles / its
\* loadToken settles.
GetTokenStep(p) ==
    /\ impl = "ubi-auth" /\ done = NoEnd /\ pc[p] = "idle"
    /\ \/ pc'[p] = "awaitLogin"
       \/ done' # NoEnd /\ done'.caller = p

LoadStep(p) == impl \in OnDisk /\ done = NoEnd /\ pc[p] = "load" /\ obs'[p] # obs[p]

\* What loadToken returned to p in a LoadStep.
Loaded(p) == IF done' # NoEnd THEN done'.tok ELSE tok'[p]

\* A call that has just ended by returning a credential.
Returned == done.op = "getToken" /\ done.how = "returned"

\* C1: a credential getToken returns is valid at the moment of return: it
\* has a token and a session and was obtained from a login no more than 30
\* minutes earlier (ubi-auth.ts tracks no expiration); a credential loadToken
\* hands to Login tracks an expiration, and now + 5 minutes < expiration.
C1_ReturnedCredentialValid ==
    [][ /\ (done' # NoEnd /\ done'.op = "getToken" /\ done'.how = "returned") =>
              /\ done'.ret.token # NoTicket
              /\ done'.ret.sessionId # NoSession
              /\ now - done'.ret.token.at <= ThirtyMinutes
        /\ \A p \in Callers :
              (LoadStep(p) /\ Loaded(p) # Null) =>
                 /\ Loaded(p).expiration # NoString
                 /\ now + FiveMinutes < getTime(Loaded(p).expiration)
      ]_vars

\* C1 witness: getToken returned a cached credential exactly 30 minutes old.
C1_Witness ==
    /\ Returned
    /\ done.hits # {}
    /\ done.at - done.ret.token.at = ThirtyMinutes

\* C2: the credential getToken(appId) returns was produced by a login made
\* with that appId.
C2_ReturnedForOwnAppId == Returned => done.ret.token.app = done.appId

\* C3: a getToken called while the credential the previous getToken returned
\* is still within its window sends no login request and returns the same
\* token and sessionId.
C3_SecondCallIsIdempotent ==
    [][ \A p \in Callers :
          (/\ GetTokenStep(p)
           /\ lastRet # NoRet
           /\ now - lastRet.token.at <= ThirtyMinutes) =>
             /\ nLogins' = nLogins
             /\ pc'[p] = "idle"
             /\ done'.how = "returned"
             /\ done'.ret = lastRet
             /\ \A v \in AppIds : done'.reqs[v] = 0
      ]_vars

\* C3 witness: a second call has returned, from the cache, what the call
\* before it returned.
C3_Witness ==
    /\ Returned
    /\ done.hits # {}
    /\ lastRet # NoRet
    /\ done.ret = lastRet

Kind(e) ==
    CASE e = MissingHeader -> "ProtocolViolation"
      [] e.message \in {"Unauthorized: Incorrect email or password.",
                        "Account does not exist."} -> "Unauthorized"
      [] e.message \in {"Conflict: Captcha or other challenge required.",
                        "Captcha needed."} -> "ChallengeRequired"
      [] e.message \in {"Too many requests: Rate limit exceeded.", "Too many requests.",
                        "Too many requests. Rate limit hit.",
                        "X Too many requests. Rate limit hit."} -> "RateLimited"
      [] e.status # 0 /\ (e.kind = "AxiosError" \/ e.message = "Login failed with status")
            -> "Unknown"
      [] OTHER -> "none"

StatusKind(status) ==
    CASE status = 401 -> "Unauthorized"
      [] status = 409 -> "ChallengeRequired"
      [] status = 429 -> "RateLimited"
      [] OTHER -> "Unknown"

\* A call that has just ended on a failed login.
LoginFailed == done.fail # NoFail /\ ~done.fail.save

\* C5: a response with status 401, 409, 429 or 500 makes the login fail with
\* Unauthorized, ChallengeRequired, RateLimited or Unknown carrying the 500,
\* and the call has not written the file of that version.
C5_ErrorMapping ==
    (LoginFailed /\ done.fail.status \in {401, 409, 429, 500}) =>
        /\ Kind(done.fail.thrown) = StatusKind(done.fail.status)
        /\ done.fail.status = 500 => done.fail.thrown.status = 500
        /\ done.fail.app \notin done.wrote
        /\ done.how # "returned"

\* C5 witness: Login saved v2 and then got 429 for v3.
C5_Witness ==
    /\ LoginFailed
    /\ done.op = "Login"
    /\ done.fail.status = 429
    /\ done.fail.app = "v3"
    /\ done.wrote = {"v2"}
    /\ Kind(done.fail.thrown) = "RateLimited"

\* C6 as stated: every login failure reaches the caller as a failure (the
\* call does not complete normally), with at most one login request per
\* version and nothing written for the failing version.
C6_FailureReachesCaller ==
    LoginFailed =>
        /\ done.how = "rejected"
        /\ \A v \in AppIds : done.reqs[v] <= 1
        /\ done.fail.app \notin done.wrote

\* C6 amended: a login failure rejects getToken, while Login catches it and
\* resolves; in both the call has sent at most one login request per version,
\* and the step in which the login fails changes neither the manager's token,
\* sessionId and lastLoginTime nor any file, the failing version's file not
\* having been written by the call.
C6_FailureLeavesCache ==
    [][ (done' # NoEnd /\ done'.fail # NoFail /\ ~done'.fail.save) =>
           /\ done'.op = "getToken" => done'.how = "rejected"
           /\ done'.op = "Login" => done'.how = "resolved"
           /\ \A v \in AppIds : done'.reqs[v] <= 1
           /\ done'.fail.app \notin done'.wrote
           /\ token' = token
           /\ sessionId' = sessionId
           /\ lastLoginTime' = lastLoginTime
           /\ file' = file
      ]_vars

\* C6 witness: a getToken was rejected while the manager held a credential,
\* which it still holds.
C6_Witness ==
    /\ LoginFailed
    /\ done.how = "rejected"
    /\ token # NoTicket
    /\ lastLoginTime # 0

\* C7: a 2xx response without the ubi-sessionid header makes the login fail
\* with ProtocolViolation, in a step that changes neither the manager's
\* fields nor any file, the call not having written that version's file; no
\* credential without a sessionId is ever returned or saved.
C7_MissingHeaderIn2xx ==
    [][ /\ (done' # NoEnd /\ done'.fail # NoFail /\ ~done'.fail.save
               /\ done'.fail.status = 200) =>
              /\ ~done'.fail.header
              /\ Kind(done'.fail.thrown) = "ProtocolViolation"
              /\ done'.how # "returned"
              /\ done'.fail.app \notin done'.wrote
              /\ token' = token
              /\ sessionId' = sessionId
              /\ lastLoginTime' = lastLoginTime
              /\ file' = file
        /\ (done' # NoEnd /\ done'.how = "returned") => done'.ret.sessionId # NoSession
        /\ \A p \in Callers : pc'[p] = "open" => tok'[p].sessionId # NoSession
      ]_vars

\* C7 witness: Login ended on a 2xx response that had no session header.
C7_Witness ==
    /\ LoginFailed
    /\ done.op = "Login"
    /\ done.fail.status = 200
    /\ ~done.fail.header
    /\ done.fail.thrown = MissingHeader

\* C8 as stated: a response without the ubi-sessionid header fails with
\* ProtocolViolation whatever its status.
C8_MissingHeaderAnyStatus ==
    (LoginFailed /\ done.fail.status # 0 /\ ~done.fail.header) =>
        Kind(done.fail.thrown) = "ProtocolViolation"

\* C8 amended: only a 2xx response is tested for the header, and fails with
\* ProtocolViolation without it; a 401, 409, 429 or 500 response fails with
\* the kind of its status, with or without the header.
C8_HeaderTestedOn2xxOnly ==
    LoginFailed =>
        /\ done.fail.status = 200 =>
              ~done.fail.header /\ Kind(done.fail.thrown) = "ProtocolViolation"
        /\ done.fail.status \in Statuses \ {200} =>
              Kind(done.fail.thrown) = StatusKind(done.fail.status)

\* C8 witness: a 409 response without the header failed as ChallengeRequired.
C8_Witness ==
    /\ LoginFailed
    /\ done.fail.status = 409
    /\ ~done.fail.header
    /\ Kind(done.fail.thrown) = "ChallengeRequired"

\* The file of version v holds what the last completed save was given, and
\* caller p's loadToken(v) settles in this step.
LoadsLastSaved(p, v) ==
    /\ LoadStep(p)
    /\ arg[p] = v
    /\ lastSaved[v] # Null
    /\ file[v] = Written(lastSaved[v])

\* C9 as stated: loadToken returns the credential the last save was given.
C9_RoundTrip ==
    [][ \A p \in Callers, v \in AppIds :
          LoadsLastSaved(p, v) => Loaded(p) = lastSaved[v] ]_vars

\* C9 amended: loadToken returns the credential the last save was given, with
\* the same token, sessionId and expiration, when that credential has an
\* expiration with now + 5 minutes < expiration at the time of the load, and
\* null when it has no expiration or one that is not that far ahead.
C9_RoundTripWhileValid ==
    [][ \A p \in Callers, v \in AppIds :
          LoadsLastSaved(p, v) =>
             Loaded(p) = IF /\ lastSaved[v].expiration # NoString
                            /\ now + FiveMinutes < getTime(lastSaved[v].expiration)
                         THEN lastSaved[v]
                         ELSE Null ]_vars

\* C9 witness: Login holds, loaded back, the v2 credential that was saved.
C9_Witness ==
    \E p \in Callers :
        /\ impl \in OnDisk
        /\ pc[p] = "load"
        /\ arg[p] = "v3"
        /\ "v2" \in obs[p].hits
        /\ tok[p] # Null
        /\ tok[p] = lastSaved["v2"]

\* The validity rule of the specification, for the manager's fields and for
\* a file.
RuleValidFields ==
    /\ token # NoTicket
    /\ sessionId # NoSession
    /\ now - token.at <= ThirtyMinutes

RuleValidFile(f) ==
    /\ f.exists
    /\ f.json
    /\ LET c == JSONparse(f.text)
       IN  /\ c.ticket # NoTicket
           /\ \/ c.expiration = NoString /\ now - c.ticket.at <= ThirtyMinutes
              \/ c.expiration # NoString /\ now + FiveMinutes < getTime(c.expiration)

\* C10: the cached credential is reused, without a login request, exactly
\* when the validity rule holds of it.
C10_ReuseFollowsRule ==
    [][ \A p \in Callers :
          /\ GetTokenStep(p) => (done' # NoEnd <=> RuleValidFields)
          /\ LoadStep(p) => (Loaded(p) # Null <=> RuleValidFile(file[arg[p]]))
      ]_vars

\* C11: loadToken never throws to Login: no Login call ends in the step in
\* which its loadToken settles with anything caught, and when the file is
\* missing or is not JSON, loadToken returns null and Login goes on to
\* request a login for that version.
C11_LoadNeverThrows ==
    [][ \A p \in Callers :
          LoadStep(p) =>
            /\ done' # NoEnd => done'.fail = NoFail
            /\ (~file[arg[p]].exists \/ ~file[arg[p]].json) =>
                  /\ Loaded(p) = Null
                  /\ pc'[p] = "request"
                  /\ obs'[p].reqs[arg[p]] = obs[p].reqs[arg[p]] + 1
      ]_vars

\* C11 witness: Login asks for a v2 login after its loadToken read the file
\* that was not JSON when the program started (no save has touched it).
C11_Witness ==
    /\ impl \in OnDisk
    /\ file["v2"] = Garbage
    /\ lastSaved["v2"] = Null
    /\ \A q \in Callers : pc[q] # "write"
    /\ \E p \in Callers : pc[p] = "request" /\ arg[p] = "v2" /\ tok[p] = Null

\* The login requests that were sent and have not settled.
InFlight == nLogins - served

\* The callers suspended at the await of a login request.
Awaiting == {p \in Callers : pc[p] \in {"awaitLogin", "request"}}

\* C12: no guard is held across the await: a getToken call that starts while
\* the manager holds no credential, or one older than 30 minutes, sends a
\* login request of its own, and so does a Login whose loadToken returned
\* null, whether or not another caller's request for the same appId is still
\* in flight; every suspended caller has a request of its own in flight.
C12_NoInFlightGuard ==
    [][ /\ \A p \in Callers :
             /\ (GetTokenStep(p) /\ (token = NoTicket \/ now - lastLoginTime > ThirtyMinutes)) =>
                   /\ pc'[p] = "awaitLogin"
                   /\ nLogins' = nLogins + 1
                   /\ served' = served
             /\ (LoadStep(p) /\ Loaded(p) = Null) =>
                   /\ pc'[p] = "request"
                   /\ nLogins' = nLogins + 1
                   /\ served' = served
        /\ InFlight' = Cardinality(Awaiting')
      ]_vars

\* C12 witness: two getToken calls for the same appId are suspended, each
\* with its own login request in flight, and nothing is cached.
C12_Witness ==
    /\ impl = "ubi-auth"
    /\ pc["c1"] = "awaitLogin"
    /\ pc["c2"] = "awaitLogin"
    /\ arg["c1"] = arg["c2"]
    /\ obs["c1"].reqs[arg["c1"]] = 1
    /\ obs["c2"].reqs[arg["c2"]] = 1
    /\ InFlight = 2
    /\ token = NoTicket

\* Caller p's save of the version it is refreshing completes in this step.
SaveStep(p) == impl \in OnDisk /\ done = NoEnd /\ pc[p] = "write" /\ pc'[p] # "write"

\* C13: a refresh that obtained a credential from a login leaves the file of
\* its version holding exactly that credential (ticket and session of that one
\* response, for that version's appId, and the expiration RequestLogin
\* returned) and changes no other file; a file changes only in a step of a
\* save of that version; a Login that reused the cached credential of a
\* version does not write that version's file.
C13_RefreshOverwritesOwnFile ==
    [][ /\ \A p \in Callers :
             /\ SaveStep(p) =>
                   /\ file'[arg[p]].exists /\ file'[arg[p]].json
                   /\ JSONparse(file'[arg[p]].text) = tok[p]
                   /\ tok[p].ticket.app = arg[p]
                   /\ tok[p].sessionId = Session(tok[p].ticket.n)
                   /\ arg[p] \in obs[p].wrote
                   /\ obs[p].reqs[arg[p]] = 1
                   /\ \A w \in AppIds \ {arg[p]} : file'[w] = file[w]
             /\ (LoadStep(p) /\ Loaded(p) # Null) => file' = file
             /\ obs'[p].hits \cap obs'[p].wrote = {}
        /\ done'.hits \cap done'.wrote = {}
        /\ \A v \in AppIds :
             file'[v] # file[v] =>
                \E p \in Callers : pc[p] \in {"open", "write"} /\ arg[p] = v
      ]_vars

\* A save of this program has opened the file of version v.
Touched(v) == lastSaved[v] # Null \/ \E p \in Callers : v \in obs[p].wrote

\* File f holds one whole credential of version v: a ticket obtained with v's
\* appId and the session of the same login response.
Whole(f, v) ==
    /\ f.exists
    /\ f.json
    /\ LET c == JSONparse(f.text)
       IN  /\ c.ticket # NoTicket
           /\ c.ticket.app = v
           /\ c.sessionId = Session(c.ticket.n)

\* C14: under every interleaving of concurrent calls, a file that a save has
\* opened always holds one whole credential; when no call is running, each
\* file holds the credential given to the last completed save of it; and the
\* token and sessionId the manager holds in memory come from one response.
C14_LastWriterWins ==
    /\ impl \in OnDisk =>
         /\ \A v \in AppIds : Touched(v) => Whole(file[v], v)
         /\ (\A p \in Callers : pc[p] = "idle") =>
               \A v \in AppIds :
                  lastSaved[v] # Null => file[v] = saveToken(lastSaved[v])
    /\ token # NoTicket => sessionId = Session(token.n)

\* C15: when the file of a version holds the credential a Login has just
\* saved (obtained at the present instant), the loadToken of a Login that
\* follows returns it and no login request is sent for that version, whether
\* or not the login response carried an expiration.
C15_LoginIdempotent ==
    [][ \A p \in Callers, v \in AppIds :
          (LoadsLastSaved(p, v) /\ lastSaved[v].ticket.at = now) =>
             /\ Loaded(p) = lastSaved[v]
             /\ nLogins' = nLogins
             /\ obs'[p].reqs[v] = 0
      ]_vars

\* C16: Login works on v2 first and on v3 only after v2 was reused or saved;
\* it never rejects; and a call whose v2 step failed (the login, or in
\* part_001 the save) has loaded, requested and written nothing for v3, and
\* ends in a step that changes no file.
C16_V2ThenV3NeverRejects ==
    [][ /\ \A p \in Callers :
             /\ (impl # "ubi-auth" /\ pc[p] = "idle" /\ pc'[p] # "idle") => arg'[p] = "v2"
             /\ (pc[p] # "idle" /\ arg[p] = "v3" /\ pc'[p] # "idle") => arg'[p] = "v3"
             /\ (impl # "ubi-auth" /\ pc'[p] # "idle" /\ arg'[p] = "v3") =>
                   /\ obs'[p].hits \cup obs'[p].wrote # {}
                   /\ "v2" \in obs'[p].hits \cup obs'[p].wrote
             /\ (impl # "ubi-auth" /\ pc'[p] # "idle" /\ arg'[p] = "v2") =>
                   /\ obs'[p].reqs["v3"] = 0
                   /\ "v3" \notin obs'[p].hits \cup obs'[p].wrote
        /\ (done' # NoEnd /\ done'.op = "Login") =>
             /\ done'.how = "resolved"
             /\ (done'.fail # NoFail /\ done'.fail.app = "v2"
                    /\ (done'.fail.save => impl \in OnDisk)) =>
                   /\ done'.reqs["v3"] = 0
                   /\ "v3" \notin done'.hits \cup done'.wrote
                   /\ file' = file
      ]_vars

\* C16 witness: a Login of part_001 whose save of v2 was refused has ended
\* resolved, having sent the v2 login only; v3's file is still missing.
C16_Witness ==
    /\ impl \in OnDisk
    /\ done.op = "Login"
    /\ done.how = "resolved"
    /\ done.fail.app = "v2"
    /\ done.fail.save
    /\ done.reqs = [v2 |-> 1, v3 |-> 0]
    /\ done.hits = {}
    /\ file["v3"] = Missing
====
